---- MODULE Spec2Model ----
(***************************************************************************)
(* Email ingestion service of code/src/main.py: the EmailProcessor object  *)
(* (emails table, taxonomy list) and the FastAPI handlers built by         *)
(* create_app.  Texts are TLA+ strings, so concatenation and joins are the *)
(* ones the code performs.  SHA-256 is taken to be collision-free.         *)
(***************************************************************************)
EXTENDS Integers, Sequences, FiniteSets, TLC

VARIABLES
    emails,         \* rows of the emails table, in rowid (insertion) order
    request_types,  \* EmailProcessor.request_types
    llm_calls,      \* number of POSTs made by ask_question so far
    last,           \* the last HTTP request served and its outcome
    log,            \* history: the runs that returned a classification result
    runs,           \* SpecConc: position and locals of each in-flight run
    pair,           \* SpecHash: two (body, attachment texts) inputs and outputs
    attachments_dir \* the files of the "attachments" folder: path -> bytes

vars ==
    <<emails, request_types, llm_calls, last, log, runs, pair, attachments_dir>>

----------------------------------------------------------------------------
(* Bounds of the model *)

MaxCalls == 2       \* ask_question is not called once llm_calls reaches it
MaxAdded == 1       \* taxonomy entries appended beyond the seed list
MaxAtts  == 2       \* attachment texts per input of SpecHash

----------------------------------------------------------------------------
(* Python values that flow from the classifier's JSON into the response
   and into the table: str, a JSON number (kept as its lexeme), None. *)

Str(s) == [t |-> "str", v |-> s]
Num(s) == [t |-> "num", v |-> s]
None   == [t |-> "None", v |-> ""]

\* A header or body part the message does not carry.
Absent == "<absent>"

\* email_message.get(name, default)
Get(header, default) == IF header = Absent THEN default ELSE header

----------------------------------------------------------------------------
(* Taxonomy *)

_initialize_request_types ==
    << <<"Account Management", "Update Contact Details">>,
       <<"Account Management", "Close Account">>,
       <<"Transaction Issues", "Failed Transaction">>,
       <<"Transaction Issues", "Disputed Transaction">>,
       <<"Loan Services", "Apply for Loan">>,
       <<"Loan Services", "Loan Repayment Issues">>,
       <<"Credit Card Services", "Lost or Stolen Card">>,
       <<"Credit Card Services", "Request Credit Limit Increase">> >>

add_request_type_prepend(types, category, request_type) ==
    <<<<category, request_type>>>> \o types

\* self.request_types.append((category, request_type))
add_request_type(types, category, request_type) ==
    Append(types, <<category, request_type>>)

----------------------------------------------------------------------------
(* Fingerprint and canonical document *)

RECURSIVE Join(_, _)
\* sep.join(texts)
Join(sep, texts) ==
    IF texts = <<>> THEN ""
    ELSE IF Len(texts) = 1 THEN texts[1]
    ELSE texts[1] \o sep \o Join(sep, Tail(texts))

\* hashlib.sha256(text.encode('utf-8')).hexdigest(), collision-free:
\* the digest stands for exactly one text.
generate_hash(text) == "sha256(" \o text \o ")"

generate_email_hash(body, attachments) ==
    generate_hash(body \o Join("\n", attachments))

\* full_text of process_email: the document sent to the classifier
full_text(body, attachment_texts) ==
    "Email Body:\n" \o body \o "\n\nAttachments:\n"
        \o Join("\n\n", attachment_texts)

----------------------------------------------------------------------------
(* Attachments.  A part of the message: its filename ("" when the part has
   none), the extension os.path.splitext finds in it, and its payload: the
   text the format's library recovers from the bytes (core, followed by the
   whitespace pad), or bytes the library cannot read (corrupt). *)

Part(filename, ext, core, pad, corrupt) ==
    [filename |-> filename, ext |-> ext, core |-> core, pad |-> pad,
     corrupt |-> corrupt, multipart |-> FALSE]

\* An attached message (message/rfc822): the part is multipart, so
\* part.get_payload(decode=True) is None.
MessagePart(filename, ext) ==
    [filename |-> filename, ext |-> ext, core |-> "", pad |-> "",
     corrupt |-> FALSE, multipart |-> TRUE]

\* part.get_payload(decode=True) of a part that is not multipart
Payload(part) ==
    [core |-> part.core, pad |-> part.pad, corrupt |-> part.corrupt]

\* what open(file_path, "wb") leaves when nothing is written
NoBytes == [core |-> "", pad |-> "", corrupt |-> FALSE]

\* the "attachments" folder as _create_upload_folders makes it
NoFiles == [path \in {} |-> NoBytes]

\* open(file_path, "wb") and f.write(payload): the file is created or
\* replaced
Write(fs, file_path, payload) ==
    [path \in (DOMAIN fs) \cup {file_path} |->
        IF path = file_path THEN payload ELSE fs[path]]

\* str.lower() on the extensions the model uses
Lower(ext) ==
    CASE ext = ".TXT" -> ".txt"
      [] ext = ".PDF" -> ".pdf"
      [] OTHER -> ext

_extract_text_from_pdf(part) ==
    IF part.corrupt THEN "[Error reading PDF: cannot open broken document]"
    ELSE part.core \o part.pad

\* file.read().strip()
_extract_text_from_txt(part) ==
    IF part.corrupt
    THEN "[Error reading TXT file: 'utf-8' codec can't decode byte]"
    ELSE part.core

_extract_text_from_docx(part) ==
    IF part.corrupt THEN "[Error reading DOCX file: Package not found]"
    ELSE part.core \o part.pad

\* pytesseract.image_to_string(image).strip()
_extract_text_from_image(part) ==
    IF part.corrupt THEN "[Error reading image: cannot identify image file]"
    ELSE part.core

extract_attachment_content(part) ==
    LET ext == Lower(part.ext) IN
    CASE ext = ".pdf"  -> _extract_text_from_pdf(part)
      [] ext = ".txt"  -> _extract_text_from_txt(part)
      [] ext = ".docx" -> _extract_text_from_docx(part)
      [] ext \in {".png", ".jpg", ".jpeg"} -> _extract_text_from_image(part)
      [] OTHER -> "[Unsupported file type: " \o ext \o "]"

\* os.path.join("attachments", filename)
FilePath(filename) == "attachments/" \o filename

_process_attachments_keep_empty(parts) ==
    LET named == SelectSeq(parts, LAMBDA part : part.filename # "") IN
    [paths  |-> [i \in DOMAIN named |-> FilePath(named[i].filename)],
     texts  |-> [i \in DOMAIN named |-> extract_attachment_content(named[i])],
     raised |-> \E i \in DOMAIN named : named[i].multipart]

RECURSIVE _process_attachments(_)
\* [paths, texts, raised]: a path for every named part, a text for every
\* named part whose extracted content is not empty.  Each file is read back
\* right after it is written, so the content is that of the part's own bytes.
\* f.write(None) raises TypeError (raised): the loop ends there.
_process_attachments(parts) ==
    IF parts = <<>> THEN [paths |-> <<>>, texts |-> <<>>, raised |-> FALSE]
    ELSE LET part    == parts[1]
             rest    == _process_attachments(Tail(parts))
             content == extract_attachment_content(part)
         IN  IF part.filename = "" THEN rest
             ELSE IF part.multipart
             THEN [paths |-> <<>>, texts |-> <<>>, raised |-> TRUE]
             ELSE [paths  |-> <<FilePath(part.filename)>> \o rest.paths,
                   texts  |-> IF content # "" THEN <<content>> \o rest.texts
                              ELSE rest.texts,
                   raised |-> rest.raised]

RECURSIVE _write_attachments(_, _)
\* the folder after the loop of _process_attachments: every named part is
\* written under its filename, in order, up to the first one whose write
\* raises (its file is left created and empty)
_write_attachments(fs, parts) ==
    IF parts = <<>> THEN fs
    ELSE LET part == parts[1] IN
         IF part.filename = "" THEN _write_attachments(fs, Tail(parts))
         ELSE IF part.multipart
         THEN Write(fs, FilePath(part.filename), NoBytes)
         ELSE _write_attachments(
                  Write(fs, FilePath(part.filename), Payload(part)),
                  Tail(parts))

----------------------------------------------------------------------------
(* Classification client.  A text of the service is a sequence of tokens:
   an opening brace, a closing brace, a JSON member "key": value, or any
   other run of characters. *)

LB == [tok |-> "{", key |-> "", val |-> None]
RB == [tok |-> "}", key |-> "", val |-> None]
Txt(s) == [tok |-> "text", key |-> s, val |-> None]
Member(k, v) == [tok |-> "member", key |-> k, val |-> v]

\* Optional[str]
NoText == [none |-> TRUE, text |-> <<>>]
Text(tokens) == [none |-> FALSE, text |-> tokens]

IsBrace(t) == t.tok \in {"{", "}"}

\* the (start, end) pairs re.search(r'\{[^{}]*\}', text) can match
Matches(text) ==
    {m \in (DOMAIN text) \X (DOMAIN text) :
        /\ m[1] < m[2]
        /\ text[m[1]] = LB
        /\ text[m[2]] = RB
        /\ \A k \in (m[1] + 1)..(m[2] - 1) : ~IsBrace(text[k])}

extract_json_fabricate(response) ==
    IF response.none \/ Matches(response.text) = {} THEN <<LB, RB>>
    ELSE LET m == CHOOSE m \in Matches(response.text) :
                      \A n \in Matches(response.text) : m[1] <= n[1]
         IN  SubSeq(response.text, m[1], m[2])

\* re.search on None raises TypeError, which the handler turns into a marker
extract_json(response) ==
    IF response.none THEN <<Txt("JSON extraction failed")>>
    ELSE IF Matches(response.text) = {}
         THEN <<Txt("No JSON found in response.")>>
         ELSE LET m == CHOOSE m \in Matches(response.text) :
                           \A n \in Matches(response.text) : m[1] <= n[1]
              IN  SubSeq(response.text, m[1], m[2])

\* json.loads: [ok, dict]; ok = FALSE stands for json.JSONDecodeError.
\* A later member with the same key replaces an earlier one.
json_loads(text) ==
    LET inner == SubSeq(text, 2, Len(text) - 1)
        wellFormed ==
            /\ Len(text) >= 2
            /\ text[1] = LB
            /\ text[Len(text)] = RB
            /\ \A i \in DOMAIN inner : inner[i].tok = "member"
        keys == {inner[i].key : i \in DOMAIN inner}
        lastOf(k) == CHOOSE i \in DOMAIN inner :
                        /\ inner[i].key = k
                        /\ \A j \in DOMAIN inner : inner[j].key = k => j <= i
    IN  IF wellFormed
        THEN [ok |-> TRUE, dict |-> [k \in keys |-> inner[lastOf(k)].val]]
        ELSE [ok |-> FALSE, dict |-> <<>>]

\* dict.get(key, default)
DictGet(dict, key, default) ==
    IF key \in DOMAIN dict THEN dict[key] ELSE default

\* the three fields both the response and the row take from the JSON
Classification(dict) ==
    [request_type     |-> DictGet(dict, "request_type", Str("Unknown")),
     sub_request_type |-> DictGet(dict, "sub_request_type", Str("Unknown")),
     summary          |-> DictGet(dict, "summary", Str("No summary provided"))]

\* classify_and_summarize: extract_json of what ask_question returned for the
\* prompt; the service's answer is not determined by the prompt.
classify_and_summarize(response) == extract_json(response)

----------------------------------------------------------------------------
(* The emails table *)

\* what a column of TEXT affinity keeps of a bound value: a number is
\* converted to its text form, NULL stays NULL
SqlText(v) == IF v.t = "num" THEN Str(v.v) ELSE v

RECURSIVE Quoted(_)
Quoted(paths) ==
    IF paths = <<>> THEN <<>>
    ELSE <<"\"" \o paths[1] \o "\"">> \o Quoted(Tail(paths))

\* json.dumps of a list of str
json_dumps(paths) == "[" \o Join(", ", Quoted(paths)) \o "]"

Row(frm, subject, body, attachment_paths, email_hash, dict) ==
    [id               |-> frm \o subject,
     frm              |-> frm,
     subject          |-> subject,
     body             |-> body,
     attachment_path  |-> json_dumps(attachment_paths),
     hash             |-> email_hash,
     request_type     |-> SqlText(Classification(dict).request_type),
     sub_request_type |-> SqlText(Classification(dict).sub_request_type),
     summary          |-> SqlText(Classification(dict).summary)]

NoFields ==
    [sender |-> None, subject |-> None, request_type |-> None,
     sub_request_type |-> None, summary |-> None]

\* SELECT ... WHERE hash = ?, fetchone(): the first matching row, or None
_check_duplicate_none(table, email_hash) ==
    [found |-> FALSE, fields |-> NoFields]

_check_duplicate(table, email_hash) ==
    LET hits == {i \in DOMAIN table : table[i].hash = email_hash} IN
    IF hits = {} THEN [found |-> FALSE, fields |-> NoFields]
    ELSE LET i == CHOOSE i \in hits : \A j \in hits : i <= j
             result == table[i]
         IN  [found  |-> TRUE,
              fields |-> [sender           |-> Str(result.frm),
                          subject          |-> Str(result.subject),
                          request_type     |-> result.request_type,
                          sub_request_type |-> result.sub_request_type,
                          summary          |-> result.summary]]

_save_email_always(table, frm, subject, body, paths, email_hash, dict) ==
    Append(table, Row(frm, subject, body, paths, email_hash, dict))

_save_email_or_replace(table, frm, subject, body, paths, email_hash, dict) ==
    LET row  == Row(frm, subject, body, paths, email_hash, dict)
        kept == SelectSeq(table, LAMBDA r : r.id # row.id)
    IN  Append(kept, row)

\* INSERT OR IGNORE: id is the only key of the table (PRIMARY KEY), so the
\* row is dropped exactly when a row with its id exists
_save_email_to_database(table, frm, subject, body, paths, email_hash, dict) ==
    LET row == Row(frm, subject, body, paths, email_hash, dict) IN
    IF \E i \in DOMAIN table : table[i].id = row.id THEN table
    ELSE Append(table, row)

----------------------------------------------------------------------------
(* process_email.  An uploaded file: its name and what message_from_bytes
   finds in its content. *)

File(filename, from, subject, body, parts) ==
    [filename |-> filename, from |-> from, subject |-> subject,
     body |-> body, parts |-> parts]

\* file.filename.endswith('.eml'), on the names the model uses
EndsWithEml(filename) == filename \in {"mail.eml", "x.eml"}

Outcome(status, kind, detail, fields) ==
    [status |-> status, kind |-> kind, detail |-> detail, fields |-> fields]

\* lines 137-145: the locals of a run whose message has a plain-text body
Locals(file) ==
    LET att == _process_attachments(file.parts) IN
    [frm              |-> Get(file.from, "Unknown Sender"),
     subject          |-> Get(file.subject, "No Subject"),
     body             |-> file.body,
     attachment_paths |-> att.paths,
     attachment_texts |-> att.texts,
     full_text        |-> full_text(file.body, att.texts),
     email_hash       |-> generate_email_hash(file.body, att.texts)]

\* lines 131-153: what the run does before it would call the classifier.
\* kind "miss" means it goes on to classify_and_summarize.
BeforeClassify(table, file) ==
    IF ~EndsWithEml(file.filename)
    THEN Outcome(400, "error",
                 "Invalid file type. Please upload a .eml file.", NoFields)
    ELSE IF file.body = Absent
    THEN \* get_body(...) is None: AttributeError, not handled
         Outcome(500, "error", "AttributeError", NoFields)
    ELSE IF _process_attachments(file.parts).raised
    THEN \* f.write(None): TypeError, not handled
         Outcome(500, "error", "TypeError", NoFields)
    ELSE LET duplicate == _check_duplicate(table, Locals(file).email_hash) IN
         IF duplicate.found
         THEN Outcome(200, "duplicate", "Duplicate email detected.",
                      duplicate.fields)
         ELSE Outcome(200, "miss", "", NoFields)

\* lines 131-142: the attachments folder after the run; every run that gets
\* to _process_attachments writes its attachments, whatever it does next
FolderAfter(fs, file) ==
    IF ~EndsWithEml(file.filename) \/ file.body = Absent THEN fs
    ELSE _write_attachments(fs, file.parts)

\* lines 160-166: the response of a run that classified its email
Classified(l, dict) ==
    Outcome(200, "classified", "",
            [sender           |-> Str(l.frm),
             subject          |-> Str(l.subject),
             request_type     |-> Classification(dict).request_type,
             sub_request_type |-> Classification(dict).sub_request_type,
             summary          |-> Classification(dict).summary])

AfterMiss_save_unparsed(table, file, response) ==
    LET l             == Locals(file)
        response_json == json_loads(classify_and_summarize(response))
        dict          == IF response_json.ok THEN response_json.dict
                         ELSE json_loads(<<LB, RB>>).dict
    IN  [table |-> _save_email_to_database(
                       table, l.frm, l.subject, l.body, l.attachment_paths,
                       l.email_hash, dict),
         out   |-> IF response_json.ok THEN Classified(l, dict)
                   ELSE Outcome(500, "error", "JSONDecodeError", NoFields)]

\* lines 155-166, given what ask_question returned: the new table and the
\* outcome.  json.loads raising JSONDecodeError is not handled.
AfterMiss(table, file, response) ==
    LET l             == Locals(file)
        response_text == classify_and_summarize(response)
        response_json == json_loads(response_text)
    IN  IF ~response_json.ok
        THEN [table |-> table,
              out   |-> Outcome(500, "error", "JSONDecodeError", NoFields)]
        ELSE [table |-> _save_email_to_database(
                            table, l.frm, l.subject, l.body,
                            l.attachment_paths, l.email_hash,
                            response_json.dict),
              out   |-> Classified(l, response_json.dict)]

----------------------------------------------------------------------------
(* Inputs the handlers are exercised with *)

PartA     == Part("a.txt", ".txt", "a", "\n", FALSE)
PartBlank == Part("a.txt", ".txt", "", "\n", FALSE)

\* (from, subject): the two concatenate to the same id
Headers  == {<<"s", "tu">>, <<"st", "u">>}
\* (body, parts): the second and third have the same body + attachment text
Contents == {<<"x", <<>>>>, <<"xa", <<>>>>, <<"x", <<PartA>>>>,
             <<"x", <<PartBlank>>>>}

Files ==
    {File("mail.eml", h[1], h[2], c[1], c[2]) : h \in Headers, c \in Contents}
    \cup {File("mail.eml", "s", Absent, "x", <<>>),
          File("mail.eml", "s", "u", Absent, <<>>),
          File("mail.txt", "s", "u", "x", <<>>)}

\* what ask_question can return
RFull ==
    <<Txt("Answer: "), LB,
      Member("request_type", Str("Account Management")),
      Member("sub_request_type", Str("Close Account")),
      Member("summary", Str("Customer requests account closure")),
      RB>>
RPartial ==
    <<LB, Member("request_type", Num("5")), RB,
      Txt(" or "), LB, Member("summary", Str("other")), RB>>
RNoJson  == <<Txt("I cannot classify this query.")>>
RBadJson == <<LB, Txt("request_type: none"), RB>>

Responses == {NoText, Text(RFull), Text(RPartial), Text(RNoJson), Text(RBadJson)}

Categories   == {"Insurance", "", Absent}
RequestTypes == {"File a Claim", "", Absent}

----------------------------------------------------------------------------
(* State *)

NoFile == File("", Absent, Absent, Absent, <<>>)

\* The request served last: the handler, the fields of an add_request body,
\* whether ask_question was called and what it returned, the fingerprint the
\* run computed, and the outcome.
Served(op, category, request_type, called, response, email_hash, out) ==
    [op |-> op, category |-> category, request_type |-> request_type,
     called |-> called, response |-> response, hash |-> email_hash,
     out |-> out]

NoRequest ==
    Served("none", Absent, Absent, FALSE, NoText, "",
           Outcome(0, "none", "", NoFields))

RunIds == {1, 2}
Idle   == [pc |-> "idle", file |-> NoFile, response |-> NoText,
           inserted |-> FALSE, out |-> Outcome(0, "none", "", NoFields)]
NoPair == [computed |-> FALSE, body1 |-> "", texts1 |-> <<>>, body2 |-> "",
           texts2 |-> <<>>, doc1 |-> "", doc2 |-> "", hash1 |-> "",
           hash2 |-> ""]

Init ==
    /\ emails = <<>>
    /\ request_types = _initialize_request_types
    /\ llm_calls = 0
    /\ last = NoRequest
    /\ log = {}
    /\ runs = [r \in RunIds |-> Idle]
    /\ pair = NoPair
    /\ attachments_dir = NoFiles

----------------------------------------------------------------------------
(* Handlers of create_app.  read_mail calls process_email without awaiting
   anything, so a run is one step of the event loop. *)

\* history of a run that returned a classification result: its content,
\* its fingerprint, whether its row was inserted and, if it was, the fields
\* the run returned
LogEntry(file, email_hash, fields, stored) ==
    [body |-> file.body, parts |-> file.parts, hash |-> email_hash,
     stored |-> stored, fields |-> IF stored THEN fields ELSE NoFields]

\* One run of process_email.  ask_question is called on a Miss only;
\* response is what it returns.
process_email(file) ==
    LET pre == BeforeClassify(emails, file)
        h   == Locals(file).email_hash
    IN  /\ attachments_dir' = FolderAfter(attachments_dir, file)
        /\ IF pre.kind # "miss"
           THEN /\ last' = Served("process_email", Absent, Absent, FALSE,
                                  NoText,
                                  IF pre.kind = "duplicate" THEN h ELSE "", pre)
                /\ UNCHANGED <<emails, llm_calls, log>>
           ELSE /\ llm_calls < MaxCalls
                /\ \E response \in Responses :
                      LET r == AfterMiss(emails, file, response) IN
                      /\ emails' = r.table
                      /\ llm_calls' = llm_calls + 1
                      /\ last' = Served("process_email", Absent, Absent, TRUE,
                                        response, h, r.out)
                      /\ log' = IF r.out.kind = "classified"
                                THEN log \cup {LogEntry(file, h, r.out.fields,
                                                        r.table # emails)}
                                ELSE log

read_mail_appends_type ==
    /\ \E file \in Files : process_email(file)
    /\ request_types' = IF Len(request_types) = Len(_initialize_request_types)
                        THEN Append(request_types, <<"Unknown", "Unknown">>)
                        ELSE request_types
    /\ UNCHANGED <<runs, pair>>

read_mail ==
    /\ \E file \in Files : process_email(file)
    /\ UNCHANGED <<request_types, runs, pair>>

\* not category or not request_type
Falsy(x) == x \in {Absent, ""}

RejectsOnlyBothMissing(category, request_type) ==
    Falsy(category) /\ Falsy(request_type)

Rejects(category, request_type) ==
    Falsy(category) \/ Falsy(request_type)

add_request ==
    /\ \E category \in Categories, request_type \in RequestTypes :
          IF Rejects(category, request_type)
          THEN /\ last' = Served("add_request", category, request_type,
                                 FALSE, NoText, "",
                                 Outcome(400, "error",
                                     "Invalid input. Provide 'category' and 'request_type'.",
                                     NoFields))
               /\ UNCHANGED request_types
          ELSE /\ Len(request_types) < Len(_initialize_request_types) + MaxAdded
               /\ request_types' =
                      add_request_type(request_types, category, request_type)
               /\ last' = Served("add_request", category, request_type,
                                 FALSE, NoText, "",
                                 Outcome(200, "added",
                                     "Request added successfully", NoFields))
    /\ UNCHANGED <<emails, llm_calls, log, runs, pair,
                 attachments_dir>>

\* GET /requests returns request_types
get_requests ==
    /\ last' = Served("get_requests", Absent, Absent, FALSE, NoText, "",
                      Outcome(200, "list", "", NoFields))
    /\ UNCHANGED <<emails, request_types, llm_calls, log, runs, pair,
                 attachments_dir>>

read_root ==
    /\ last' = Served("read_root", Absent, Absent, FALSE, NoText, "",
                      Outcome(200, "root", "Email Processing Service",
                              NoFields))
    /\ UNCHANGED <<emails, request_types, llm_calls, log, runs, pair,
                 attachments_dir>>

Next == read_mail \/ add_request \/ get_requests \/ read_root

Spec == Init /\ [][Next]_vars

----------------------------------------------------------------------------
(* SpecHash: generate_email_hash and the canonical document as functions of
   (body, attachment texts), on two inputs side by side. *)

HashBodies == {"x", "xa"}
HashTexts  == {"a", "b", "a\n\nb", "a\na"}

RECURSIVE SeqsUpTo(_, _)
SeqsUpTo(S, n) ==
    IF n = 0 THEN {<<>>}
    ELSE SeqsUpTo(S, n - 1)
         \cup {Append(q, x) : q \in {q \in SeqsUpTo(S, n - 1) : Len(q) = n - 1},
                              x \in S}

HashInputs == HashBodies \X SeqsUpTo(HashTexts, MaxAtts)

InitHash ==
    /\ emails = <<>>
    /\ request_types = _initialize_request_types
    /\ llm_calls = 0
    /\ last = NoRequest
    /\ log = {}
    /\ runs = [r \in RunIds |-> Idle]
    /\ attachments_dir = NoFiles
    /\ \E e1 \in HashInputs, e2 \in HashInputs :
          pair = [NoPair EXCEPT !.body1 = e1[1], !.texts1 = e1[2],
                                !.body2 = e2[1], !.texts2 = e2[2]]

\* lines 143 and 145 of process_email on each of the two inputs
Fingerprint ==
    /\ ~pair.computed
    /\ pair' = [pair EXCEPT
                    !.computed = TRUE,
                    !.doc1  = full_text(pair.body1, pair.texts1),
                    !.doc2  = full_text(pair.body2, pair.texts2),
                    !.hash1 = generate_email_hash(pair.body1, pair.texts1),
                    !.hash2 = generate_email_hash(pair.body2, pair.texts2)]
    /\ UNCHANGED <<emails, request_types, llm_calls, last, log, runs,
                 attachments_dir>>

NextHash == Fingerprint

SpecHash == InitHash /\ [][NextHash]_vars

----------------------------------------------------------------------------
(* SpecConc: runs of process_email whose duplicate check, classifier call
   and insert are separate steps that other runs may interleave with.
   process_email takes no lock and opens no transaction around them. *)

ConcFiles == {f \in Files : f.filename = "mail.eml" /\ f.body = "x"}
ConcResponses == {NoText, Text(RFull)}

\* lines 131-153
run_check(r) ==
    /\ runs[r].pc = "idle"
    /\ \E file \in ConcFiles :
          LET pre == BeforeClassify(emails, file) IN
          /\ runs' = [runs EXCEPT ![r] =
                      [Idle EXCEPT !.pc = IF pre.kind = "miss" THEN "classify"
                                         ELSE "done",
                                   !.file = file,
                                   !.out = pre]]
          /\ attachments_dir' = FolderAfter(attachments_dir, file)
    /\ UNCHANGED <<emails, request_types, llm_calls, last, log, pair>>

\* lines 155-156
run_classify(r) ==
    /\ runs[r].pc = "classify"
    /\ llm_calls < MaxCalls
    /\ \E response \in ConcResponses :
          LET response_json == json_loads(classify_and_summarize(response)) IN
          runs' = [runs EXCEPT ![r] =
                      IF response_json.ok
                      THEN [@ EXCEPT !.pc = "save", !.response = response]
                      ELSE [@ EXCEPT !.pc = "done", !.response = response,
                                     !.out = Outcome(500, "error",
                                                     "JSONDecodeError",
                                                     NoFields)]]
    /\ llm_calls' = llm_calls + 1
    /\ UNCHANGED <<emails, request_types, last, log, pair,
                 attachments_dir>>

\* lines 158-166
run_save(r) ==
    /\ runs[r].pc = "save"
    /\ LET l    == Locals(runs[r].file)
           dict == json_loads(classify_and_summarize(runs[r].response)).dict
       IN  /\ emails' = _save_email_to_database(
                            emails, l.frm, l.subject, l.body,
                            l.attachment_paths, l.email_hash, dict)
           /\ runs' = [runs EXCEPT ![r] =
                          [@ EXCEPT !.pc = "done",
                                    !.inserted = (emails' # emails),
                                    !.out = Classified(l, dict)]]
    /\ UNCHANGED <<request_types, llm_calls, last, log, pair,
                 attachments_dir>>

\* the response is sent; the slot serves the next request
run_return(r) ==
    /\ runs[r].pc = "done"
    /\ runs' = [runs EXCEPT ![r] = Idle]
    /\ last' = Served("process_email", Absent, Absent,
                      runs[r].out.kind \in {"classified"}
                          \/ runs[r].out.detail = "JSONDecodeError",
                      runs[r].response,
                      IF runs[r].out.kind \in {"classified", "duplicate"}
                      THEN Locals(runs[r].file).email_hash ELSE "",
                      runs[r].out)
    /\ UNCHANGED <<emails, request_types, llm_calls, log, pair,
                 attachments_dir>>

NextConc ==
    \E r \in RunIds :
        run_check(r) \/ run_classify(r) \/ run_save(r) \/ run_return(r)

SpecConc == Init /\ [][NextConc]_vars

----------------------------------------------------------------------------
(* SpecAtt: read_mail on uploads that differ in their attachments: none, a
   text file, a text file of white space, a part without a filename, a PDF
   with an upper-case extension whose bytes are corrupt, a type with no
   extractor, a forwarded message attached as message/rfc822. *)

PartNoName == Part("", "", "n", "", FALSE)
PartPdf    == Part("b.PDF", ".PDF", "b", "\n", TRUE)
PartZip    == Part("c.zip", ".zip", "c", "", FALSE)
PartFwd    == MessagePart("fwd.eml", ".eml")

AttFiles ==
    {File("mail.eml", "s", "u", "x", parts) :
        parts \in {<<>>, <<PartA>>, <<PartBlank>>, <<PartBlank, PartA>>,
                   <<PartNoName, PartA>>, <<PartPdf>>, <<PartZip>>,
                   <<PartPdf, PartZip>>, <<PartFwd>>, <<PartA, PartFwd>>}}

read_mail_att ==
    /\ \E file \in AttFiles : process_email(file)
    /\ UNCHANGED <<request_types, runs, pair>>

NextAtt == read_mail_att

SpecAtt == Init /\ [][NextAtt]_vars

----------------------------------------------------------------------------
(* Properties *)

RowsWithHash(h) == {i \in DOMAIN emails : emails[i].hash = h}

\* a step that is a run of process_email which called the classifier
IsMissRun == last'.op = "process_email" /\ llm_calls' = llm_calls + 1

\* C1: in every state reached by a sequence of process_email runs, the
\* emails table holds at most one row for any fingerprint.
C1_OneRowPerFingerprint ==
    \A i, j \in DOMAIN emails : emails[i].hash = emails[j].hash => i = j

\* two rows are stored and the last run was answered from one of them
C1_Witness ==
    /\ Len(emails) = 2
    /\ last.op = "process_email"
    /\ last.out.kind = "duplicate"

\* C2: once a run on some (body, attachments) has returned a classification
\* result, a run on the same (body, attachments) takes the Duplicate path,
\* and a run on the Duplicate path makes no call to the classifier.
C2_ResubmissionIsDuplicate ==
    /\ \A e \in log : \A f \in Files :
          (EndsWithEml(f.filename) /\ f.body = e.body /\ f.parts = e.parts)
              => BeforeClassify(emails, f).kind = "duplicate"
    /\ (last.op = "process_email" /\ last.out.kind = "duplicate")
          => ~last.called

\* C3: after a run that took the Miss path and returned a classification
\* result, the table has a row with that run's fingerprint.
C3_ClassifiedRunIsStored ==
    (last.op = "process_email" /\ last.out.kind = "classified")
        => RowsWithHash(last.hash) # {}

\* C4: on a Hit, previous_email carries exactly the sender, subject,
\* request_type, sub_request_type and summary that the run which stored the
\* row for that fingerprint returned.
C4_HitReturnsFirstResponse ==
    (last.op = "process_email" /\ last.out.kind = "duplicate")
        => \E e \in log :
              e.stored /\ e.hash = last.hash /\ e.fields = last.out.fields

\* C5: a run on the Miss path whose ask_question returned no text ends in a
\* failure and leaves the table as it was.
C5_FailedCallStoresNothing ==
    [][(IsMissRun /\ last'.response.none)
          => (last'.out.status = 500 /\ last'.out.kind = "error"
              /\ emails' = emails)]_vars

\* a run failed on an unavailable classifier while a row was stored
C5_Witness ==
    /\ last.op = "process_email"
    /\ last.called
    /\ last.response.none
    /\ last.out.status = 500
    /\ Len(emails) >= 1

\* C6: a run whose classifier text has no brace-delimited substring returns
\* a parse-failure payload to the caller (it neither fails unhandled nor
\* returns a classification made of defaults) and inserts no row.
C6_NoJsonReturnsParseFailure ==
    [][(IsMissRun /\ ~last'.response.none
            /\ Matches(last'.response.text) = {})
          => (last'.out.status = 200 /\ last'.out.kind # "classified"
              /\ emails' = emails)]_vars

\* C7: two inputs with the same canonical document have the same
\* fingerprint.
C7_SameDocumentSameFingerprint ==
    (pair.computed /\ pair.doc1 = pair.doc2) => pair.hash1 = pair.hash2

C9_TaxonomyAppendOnly ==
    /\ [](/\ Len(request_types) >= Len(_initialize_request_types)
          /\ SubSeq(request_types, 1, Len(_initialize_request_types))
                = _initialize_request_types)
    /\ [][(last'.op = "add_request" /\ last'.out.status = 200)
             => (/\ Len(request_types') = Len(request_types) + 1
                 /\ request_types'[Len(request_types')]
                        = <<last'.category, last'.request_type>>
                 /\ \A i \in DOMAIN request_types :
                        request_types'[i] = request_types[i])]_vars
    /\ [][request_types' # request_types
             => (last'.op = "add_request" /\ last'.out.status = 200)]_vars

\* an entry was appended after the seeds
C9_Witness ==
    /\ last.op = "add_request"
    /\ last.out.status = 200
    /\ Len(request_types) = Len(_initialize_request_types) + 1
    /\ request_types[Len(request_types)] = <<"Insurance", "File a Claim">>

\* C10: an add_request whose category or request_type is missing or empty is
\* answered with status 400 and changes neither the taxonomy, nor the table,
\* nor the number of classifier calls.
C10_InvalidMutationHasNoEffect ==
    [][(last'.op = "add_request"
            /\ (Falsy(last'.category) \/ Falsy(last'.request_type)))
          => (last'.out.status = 400
              /\ UNCHANGED <<request_types, emails, llm_calls>>)]_vars

\* a mutation with an empty field was rejected after rows were stored and
\* an entry appended
C10_Witness ==
    /\ last.op = "add_request"
    /\ Falsy(last.category) /\ ~Falsy(last.request_type)
    /\ last.out.status = 400
    /\ Len(emails) >= 1
    /\ llm_calls >= 1
    /\ Len(request_types) > Len(_initialize_request_types)

\* C11: a run on a .eml upload whose message has no plain-text body part
\* ends with a client-input (4xx) status, and it writes no attachment file,
\* makes no classifier call and inserts no row.
C11_ParseFailureIsClientError ==
    [][\A file \in Files :
          (EndsWithEml(file.filename) /\ file.body = Absent
              /\ process_email(file))
            => (/\ last'.out.status \in 400..499
                /\ UNCHANGED <<attachments_dir, llm_calls, emails>>)]_vars

\* the parts of a message that carry a filename
NamedParts(parts) == SelectSeq(parts, LAMBDA part : part.filename # "")

\* what extract_attachment_content returns for each named part, in order
ExtractedTexts(parts) ==
    [i \in DOMAIN NamedParts(parts) |->
        extract_attachment_content(NamedParts(parts)[i])]

NonEmpty(texts) == SelectSeq(texts, LAMBDA text : text # "")

\* C12: whatever attachments a .eml upload with a plain-text body carries
\* (any extension, extractor succeeding or failing), its run reaches the
\* duplicate check: it is answered as a duplicate or goes on to the
\* classifier with the body and the attachments' texts or markers.
C12_AttachmentsNeverAbortRun ==
    [][\A file \in AttFiles :
          process_email(file)
            => (/\ last'.out.kind = "duplicate" \/ last'.called
                /\ last'.hash = generate_email_hash(
                        file.body, NonEmpty(ExtractedTexts(file.parts))))]_vars

\* C13: a run is answered as a duplicate only if its canonical document
\* (the text it would send to the classifier) is the canonical document of
\* an email stored by an earlier run.
C13_DuplicateOnlyOfSameDocument ==
    [][\A file \in Files :
          (process_email(file) /\ last'.out.kind = "duplicate")
            => \E e \in log :
                  /\ e.stored
                  /\ full_text(e.body, _process_attachments(e.parts).texts)
                         = Locals(file).full_text]_vars

\* C14: the classifier is called only by a run whose duplicate check found
\* no row with its fingerprint; a row is inserted only by a run that called
\* the classifier and parsed its answer as JSON; a run answered as a
\* duplicate found a row with the fingerprint it computed from its body and
\* attachments, and makes no classifier call and no insert.
C14_StepsInOrder ==
    /\ [][llm_calls' # llm_calls
             => (/\ last'.op = "process_email"
                 /\ last'.called
                 /\ RowsWithHash(last'.hash) = {})]_vars
    /\ [][emails' # emails
             => (/\ llm_calls' = llm_calls + 1
                 /\ json_loads(extract_json(last'.response)).ok
                 /\ last'.out.kind = "classified")]_vars
    /\ [][(last'.op = "process_email" /\ last'.out.kind = "duplicate")
             => (/\ RowsWithHash(last'.hash) # {}
                 /\ ~last'.called
                 /\ UNCHANGED <<emails, llm_calls>>)]_vars

\* after a stored run and a run whose classifier answer failed to parse, a
\* run with attachments was answered as a duplicate
C14_Witness ==
    /\ last.op = "process_email"
    /\ last.out.kind = "duplicate"
    /\ llm_calls = 2
    /\ Len(emails) = 1
    /\ attachments_dir # NoFiles

\* C15: a row of the emails table stays where it is with all its fields
\* unchanged in every later state, whatever request is served next.
C15_RowsAreWriteOnce ==
    [][\A i \in DOMAIN emails :
          i \in DOMAIN emails' /\ emails'[i] = emails[i]]_vars

\* a row survived a taxonomy append and a later run whose insert collided
\* with it
C15_Witness ==
    /\ Len(emails) = 1
    /\ Len(request_types) > Len(_initialize_request_types)
    /\ last.op = "process_email"
    /\ last.out.kind = "classified"
    /\ RowsWithHash(last.hash) = {}

\* C16: the file at every path recorded in a stored row still holds the
\* bytes of that email's attachment, whatever runs came later.
C16_StoredPathsKeepTheirBytes ==
    \A e \in log :
        e.stored =>
            \A i \in DOMAIN e.parts :
                e.parts[i].filename # "" =>
                    /\ FilePath(e.parts[i].filename) \in DOMAIN attachments_dir
                    /\ attachments_dir[FilePath(e.parts[i].filename)]
                           = Payload(e.parts[i])

\* t holds the elements of s in another arrangement
IsPermutation(s, t) ==
    /\ Len(s) = Len(t)
    /\ \E p \in [DOMAIN s -> DOMAIN s] :
          /\ \A i, j \in DOMAIN s : p[i] = p[j] => i = j
          /\ \A i \in DOMAIN s : t[i] = s[p[i]]

\* C17: two inputs with the same body whose attachment-text lists are
\* permutations of each other and differ as sequences have different
\* fingerprints.
C17_ReorderingChangesFingerprint ==
    (/\ pair.computed
     /\ pair.body1 = pair.body2
     /\ pair.texts1 # pair.texts2
     /\ IsPermutation(pair.texts1, pair.texts2))
        => pair.hash1 # pair.hash2

\* C18: add_request leaves the emails table as it is and process_email
\* leaves the taxonomy as it is; after a taxonomy append every upload gets
\* the answer from the duplicate check that it got before it (a stored
\* email is still answered from its row, with no classifier call).
C18_TaxonomyAndStoreIndependent ==
    /\ [][last'.op = "add_request" => emails' = emails]_vars
    /\ [][last'.op = "process_email" => request_types' = request_types]_vars
    /\ [][request_types' # request_types
             => \A file \in Files :
                   BeforeClassify(emails', file) = BeforeClassify(emails, file)]_vars

\* an entry was appended to the taxonomy while a row was stored, and the
\* upload that stored the row would be answered as a duplicate
C18_Witness ==
    /\ last.op = "add_request"
    /\ last.out.status = 200
    /\ Len(emails) >= 1
    /\ \E e \in log : \E file \in Files :
          /\ e.stored /\ file.body = e.body /\ file.parts = e.parts
          /\ BeforeClassify(emails, file).kind = "duplicate"

\* C19: in every run the path list has the path of each named attachment
\* and the text list is the extracted texts without the empty ones; a stored
\* row records the paths of all its named attachments, empty text or not;
\* and an upload that differs from a stored email only by attachments whose
\* text is empty is answered as its duplicate.
C19_EmptyTextIsOmitted ==
    /\ \A file \in AttFiles :
          LET att == _process_attachments(file.parts) IN
          ~att.raised =>
              /\ att.paths = [i \in DOMAIN NamedParts(file.parts) |->
                                 FilePath(NamedParts(file.parts)[i].filename)]
              /\ att.texts = NonEmpty(ExtractedTexts(file.parts))
    /\ \A e \in log :
          e.stored =>
              /\ \E i \in DOMAIN emails :
                    /\ emails[i].hash = e.hash
                    /\ emails[i].attachment_path
                           = json_dumps([k \in DOMAIN NamedParts(e.parts) |->
                                 FilePath(NamedParts(e.parts)[k].filename)])
              /\ \A file \in AttFiles :
                    (/\ file.body = e.body
                     /\ ~_process_attachments(file.parts).raised
                     /\ NonEmpty(ExtractedTexts(file.parts))
                            = NonEmpty(ExtractedTexts(e.parts)))
                        => BeforeClassify(emails, file).kind = "duplicate"

\* the email without attachments was stored by the only classifier call,
\* and the upload with the white-space attachment, whose file is the last
\* one written, was answered as its duplicate
C19_Witness ==
    /\ llm_calls = 1
    /\ Len(emails) = 1
    /\ emails[1].attachment_path = json_dumps(<<>>)
    /\ last.op = "process_email"
    /\ last.out.kind = "duplicate"
    /\ FilePath("a.txt") \in DOMAIN attachments_dir
    /\ attachments_dir[FilePath("a.txt")] = Payload(PartBlank)

\* C20: every row's id is its sender followed by its subject and no two
\* rows have the same id; a run that classified its email while a row with
\* its sender + subject exists leaves the table as it is and still returns
\* its classification with status 200, and otherwise adds exactly its row.
C20_IdIsUniqueAndConflictIgnored ==
    /\ [](\A i, j \in DOMAIN emails :
            /\ emails[i].id = emails[i].frm \o emails[i].subject
            /\ emails[i].id = emails[j].id => i = j)
    /\ [][(IsMissRun
             /\ json_loads(classify_and_summarize(last'.response)).ok)
           => (/\ last'.out.status = 200
               /\ last'.out.kind = "classified"
               /\ IF \E i \in DOMAIN emails :
                        emails[i].id = last'.out.fields.sender.v
                                          \o last'.out.fields.subject.v
                  THEN emails' = emails
                  ELSE /\ Len(emails') = Len(emails) + 1
                       /\ SubSeq(emails', 1, Len(emails)) = emails
                       /\ emails'[Len(emails')].id
                              = last'.out.fields.sender.v
                                   \o last'.out.fields.subject.v)]_vars

\* a run from another sender and subject that concatenate to the stored
\* row's id returned its classification and was not stored
C20_Witness ==
    /\ Len(emails) = 1
    /\ last.op = "process_email"
    /\ last.out.kind = "classified"
    /\ last.out.status = 200
    /\ emails[1].id = last.out.fields.sender.v \o last.out.fields.subject.v
    /\ emails[1].frm # last.out.fields.sender.v
    /\ emails[1].hash # last.hash

====
